---- MODULE Spec2Model ----
(***************************************************************************)
(* A model of rotate_image_to_gif.py: ease_in_out_sine and                 *)
(* create_eased_rotating_gif.  One call of create_eased_rotating_gif is    *)
(* followed statement by statement (pc is the position in the function).   *)
(*                                                                         *)
(* Floating point is rendered in fixed point: a float x is the integer     *)
(* nearest to x * Scale, every arithmetic operation rounds its result to   *)
(* the nearest representable value, and math.cos is computed the way a     *)
(* libm computes it (argument reduction to [0, pi/2], then a polynomial).  *)
(***************************************************************************)
EXTENDS Integers, Sequences, FiniteSets

\* ------------------------------------------------------------------ bounds
MaxFrames == 5

\* The call's arguments are drawn from these sets.
FrameChoices == (0 - 1)..MaxFrames
DurationChoices == {0 - 1, 0, 50, 100}

\* ------------------------------------------------------- fixed-point floats
\* The precision of the model's floats: x is held as round(x * Scale).
Scale == 10000

\* math.pi, to that precision.
PiFx == 31416

\* The 360.0 of theta = 360.0 * eased_t.
FullTurn == 360

\* a / b rounded to the nearest integer (a >= 0, b > 0): the rounding every
\* float operation performs.
RoundDiv(a, b) == (2 * a + b) \div (2 * b)

\* The polynomial of cos on the reduced argument y in [0, pi/2]:
\* 1 - y^2/2! + y^4/4! - y^6/6! + y^8/8!, in Horner form.
CosPoly(y) ==
    LET y2 == RoundDiv(y * y, Scale)
        a4 == Scale - RoundDiv(y2, 56)
        a3 == Scale - RoundDiv(RoundDiv(y2 * a4, Scale), 30)
        a2 == Scale - RoundDiv(RoundDiv(y2 * a3, Scale), 12)
    IN  Scale - RoundDiv(RoundDiv(y2 * a2, Scale), 2)

\* math.cos(x) for x in [0, pi]: cos(x) = -cos(pi - x) above pi/2.
Cos(x) ==
    IF 2 * x <= PiFx THEN CosPoly(x) ELSE 0 - CosPoly(PiFx - x)

\* ease_in_out_sine(t) = 0.5 * (1 - math.cos(math.pi * t))
ease_in_out_sine(t) ==
    RoundDiv(Scale - Cos(RoundDiv(PiFx * t, Scale)), 2)

\* t = i / float(n_frames - 1), for n_frames - 1 > 0.
ProgressOverN(i, n) == RoundDiv(i * Scale, n)
Progress(i, n) == RoundDiv(i * Scale, n - 1)

\* theta = 360.0 * ease_in_out_sine(t)
Theta(i, n) == FullTurn * ease_in_out_sine(Progress(i, n))

\* ------------------------------------------------------------------ images
\* A raster is the file it was decoded from, its size, and the rotation that
\* has been applied to it so far (in fixed-point degrees).
SourceImage == [base |-> "input", w |-> 64, h |-> 64, rot |-> 0]
NoImage == [base |-> "none", w |-> 0, h |-> 0, rot |-> 0]

\* Image.rotate(theta, expand=False): a new raster of the same size; the
\* receiver is not changed.
Rotate(img, theta) == [img EXCEPT !.rot = img.rot + theta]

\* ------------------------------------------------------- the output file
\* The file at output_path: absent, some earlier content, or a GIF being
\* written (closed = FALSE) or written (closed = TRUE).
Absent == [kind |-> "absent", frames |-> <<>>, loop |-> 0, closed |-> TRUE]
OldFile == [kind |-> "old", frames |-> <<>>, loop |-> 0, closed |-> TRUE]
EmptyGif(loop) == [kind |-> "gif", frames |-> <<>>, loop |-> loop, closed |-> FALSE]

NoArgs == [set |-> FALSE, first |-> NoImage, append_images |-> <<>>,
           duration |-> 0, loop |-> 0]
NoSummary == [set |-> FALSE, w |-> 0, h |-> 0, frames |-> 0, duration |-> 0,
              mode |-> "none"]

VARIABLES
    pc,                 \* position in create_eased_rotating_gif
    input_ok,           \* whether input_path decodes
    n_frames, frame_duration_ms, loop_forever,   \* the arguments
    original,           \* the decoded source
    i,                  \* index of the angle loop
    angles,             \* the list angles
    frames,             \* the list frames
    save_args,          \* what frames[0].save was called with
    output,             \* the file at output_path
    output0,            \* the file at output_path when the call began
    sink_open,          \* the output file is open for writing
    summary,            \* what print was called with
    error               \* the exception that ended the call

vars == <<pc, input_ok, n_frames, frame_duration_ms, loop_forever, original, i,
          angles, frames, save_args, output, output0, sink_open, summary, error>>

args == <<input_ok, n_frames, frame_duration_ms, loop_forever, output0>>

Init ==
    /\ pc = "load"
    /\ input_ok \in BOOLEAN
    /\ n_frames \in FrameChoices
    /\ frame_duration_ms \in DurationChoices
    /\ loop_forever \in BOOLEAN
    /\ original = NoImage
    /\ i = 0
    /\ angles = <<>>
    /\ frames = <<>>
    /\ save_args = NoArgs
    /\ output0 \in {Absent, OldFile}
    /\ output = output0
    /\ sink_open = FALSE
    /\ summary = NoSummary
    /\ error = "none"

\* Raising an exception: nothing catches it, the call ends.
Raise(e) ==
    /\ pc' = "failed"
    /\ error' = e

\* 1) original = Image.open(input_path).convert("RGBA")
LoadUnchecked ==
    /\ pc = "load"
    /\ original' = SourceImage
    /\ pc' = "angles"
    /\ UNCHANGED <<args, i, angles, frames, save_args, output, sink_open,
                   summary, error>>
Load ==
    /\ pc = "load"
    /\ IF input_ok
         THEN /\ original' = SourceImage
              /\ pc' = "angles"
              /\ error' = error
         ELSE /\ Raise("decode")
              /\ original' = original
    /\ UNCHANGED <<args, i, angles, frames, save_args, output, sink_open, summary>>

\* 2) one iteration of: for i in range(n_frames)
BuildAngle ==
    /\ pc = "angles"
    /\ i < n_frames
    /\ IF n_frames - 1 = 0
         THEN /\ Raise("ZeroDivisionError")
              /\ UNCHANGED <<i, angles>>
         ELSE /\ angles' = Append(angles, Theta(i, n_frames))
              /\ i' = i + 1
              /\ UNCHANGED <<pc, error>>
    /\ UNCHANGED <<args, original, frames, save_args, output, sink_open, summary>>

\* range(n_frames) is exhausted (at once when n_frames <= 0)
AnglesDone ==
    /\ pc = "angles"
    /\ i >= n_frames
    /\ pc' = "rotate"
    /\ UNCHANGED <<args, original, i, angles, frames, save_args, output,
                   sink_open, summary, error>>

\* 3) one iteration of: for theta in angles.  The iteration's index is the
\* number of frames appended so far.
RotateFrameCumulative ==
    /\ pc = "rotate"
    /\ Len(frames) < Len(angles)
    /\ frames' = Append(frames,
                        Rotate(IF frames = <<>> THEN original ELSE frames[Len(frames)],
                               angles[Len(frames) + 1]))
    /\ UNCHANGED <<args, pc, original, i, angles, save_args, output, sink_open,
                   summary, error>>
RotateFrame ==
    /\ pc = "rotate"
    /\ Len(frames) < Len(angles)
    /\ frames' = Append(frames, Rotate(original, angles[Len(frames) + 1]))
    /\ UNCHANGED <<args, pc, original, i, angles, save_args, output, sink_open,
                   summary, error>>

\* original.rotate raises (MemoryError): nothing catches it.
RotateRaises ==
    /\ pc = "rotate"
    /\ Len(frames) < Len(angles)
    /\ Raise("render")
    /\ UNCHANGED <<args, original, i, angles, frames, save_args, output,
                   sink_open, summary>>

\* angles is exhausted
FramesDone ==
    /\ pc = "rotate"
    /\ Len(frames) = Len(angles)
    /\ pc' = "save"
    /\ UNCHANGED <<args, original, i, angles, frames, save_args, output,
                   sink_open, summary, error>>

\* loop_param = 0 if loop_forever else 1
LoopParamSwapped(forever) == IF forever THEN 1 ELSE 0
LoopParam(forever) == IF forever THEN 0 ELSE 1

\* append_images=frames[1:]
AppendImagesAll(fs) == fs
AppendImages(fs) == SubSeq(fs, 2, Len(fs))

\* 4) frames[0].save(output_path, save_all=True, append_images=frames[1:],
\*    duration=frame_duration_ms, loop=loop_param): the receiver and the
\*    arguments are evaluated; frames[0] of an empty list raises IndexError.
SaveCall ==
    /\ pc = "save"
    /\ IF frames = <<>>
         THEN /\ Raise("IndexError")
              /\ save_args' = save_args
         ELSE /\ save_args' = [set |-> TRUE,
                               first |-> frames[1],
                               append_images |-> AppendImages(frames),
                               duration |-> frame_duration_ms,
                               loop |-> LoopParam(loop_forever)]
              /\ pc' = "open"
              /\ error' = error
    /\ UNCHANGED <<args, original, i, angles, frames, output, sink_open, summary>>

\* The sequence the encoder writes: the receiver, then append_images.
EncoderFrames == <<save_args.first>> \o save_args.append_images

\* save opens output_path for writing, which creates or truncates it ...
SinkOpenEarly ==
    /\ pc \in {"rotate", "open"}
    /\ output' = EmptyGif(LoopParam(loop_forever))
    /\ sink_open' = TRUE
    /\ pc' = "writing"
    /\ UNCHANGED <<args, original, i, angles, frames, save_args, summary, error>>
SinkOpen ==
    /\ pc = "open"
    /\ output' = EmptyGif(save_args.loop)
    /\ sink_open' = TRUE
    /\ pc' = "writing"
    /\ UNCHANGED <<args, original, i, angles, frames, save_args, summary, error>>

\* ... or fails to (permissions, missing directory): OSError, file untouched.
SinkOpenRaises ==
    /\ pc = "open"
    /\ Raise("write")
    /\ UNCHANGED <<args, original, i, angles, frames, save_args, output,
                   sink_open, summary>>

\* The encoder writes the next frame with its duration.
WriteFrame ==
    /\ pc = "writing"
    /\ Len(output.frames) < Len(EncoderFrames)
    /\ output' = [output EXCEPT !.frames =
                    Append(@, [img |-> EncoderFrames[Len(output.frames) + 1],
                               duration |-> save_args.duration])]
    /\ UNCHANGED <<args, pc, original, i, angles, frames, save_args, sink_open,
                   summary, error>>

\* A write fails (disk full): the exception leaves save, which closes the
\* file.  create_eased_rotating_gif does no clean-up of its own; the imaging
\* library removes the file only when this call created it, and older
\* versions of it never do.
WriteRaises ==
    /\ pc = "writing"
    /\ Len(output.frames) < Len(EncoderFrames)
    /\ Raise("write")
    /\ sink_open' = FALSE
    /\ \/ output' = output
       \/ /\ output0 = Absent
          /\ output' = Absent
    /\ UNCHANGED <<args, original, i, angles, frames, save_args, summary>>

\* All frames written: the trailer is written and the file closed; save returns.
SinkClose ==
    /\ pc = "writing"
    /\ Len(output.frames) = Len(EncoderFrames)
    /\ output' = [output EXCEPT !.closed = TRUE]
    /\ sink_open' = FALSE
    /\ pc' = "report"
    /\ UNCHANGED <<args, original, i, angles, frames, save_args, summary, error>>

\* print(f"Saved ... Size = {w}x{h}, Frames = {n_frames}, Duration per frame
\* = {frame_duration_ms}ms, {'inf loop' if loop_forever else 'play twice'}.")
Report ==
    /\ pc = "report"
    /\ summary' = [set |-> TRUE, w |-> original.w, h |-> original.h,
                   frames |-> n_frames, duration |-> frame_duration_ms,
                   mode |-> IF loop_forever THEN "inf loop" ELSE "play twice"]
    /\ pc' = "done"
    /\ UNCHANGED <<args, original, i, angles, frames, save_args, output,
                   sink_open, error>>

Next ==
    \/ Load
    \/ BuildAngle
    \/ AnglesDone
    \/ RotateFrame
    \/ RotateRaises
    \/ FramesDone
    \/ SaveCall
    \/ SinkOpen
    \/ SinkOpenRaises
    \/ WriteFrame
    \/ WriteRaises
    \/ SinkClose
    \/ Report

Spec == Init /\ [][Next]_vars

\* ------------------------------------------------------------ properties
Terminal == pc \in {"done", "failed"}

\* frames[0].save has been entered.
EncodeStarted == save_args.set

\* The file at output_path holds the whole animation of this call.
OutputComplete ==
    /\ output.kind = "gif"
    /\ output.closed
    /\ Len(output.frames) = n_frames

\* The angle loop has run to its end.
AnglesBuilt == pc \notin {"load", "angles"} /\ error # "decode"

IsSorted(s) == \A a, b \in 1..Len(s) : a <= b => s[a] <= s[b]

\* C1: with n_frames = 1 and a decodable input the call raises no
\* division-by-zero error in the angle loop.
C1_NoDivisionByZero ==
    (n_frames = 1 /\ input_ok) => error # "ZeroDivisionError"

\* C2: with n_frames < 1 the call fails with a configuration error before the
\* input is decoded or anything is rendered, and output_path is untouched.
C2_ConfigErrorBeforeDecode ==
    n_frames < 1 =>
        /\ original = NoImage
        /\ frames = <<>>
        /\ output = output0
        /\ pc \in {"load", "failed"}
        /\ pc = "failed" => error = "config"

\* C3: with frame_duration_ms <= 0 the call never reaches the save step or
\* the summary, and writes nothing to output_path.
C3_NoSaveWithBadDuration ==
    frame_duration_ms <= 0 =>
        /\ ~save_args.set
        /\ ~summary.set
        /\ output = output0

\* C4: when input_path does not decode, the call fails with the decode error
\* before any angle or frame exists, output_path is as it was, and no summary
\* is printed.
C4_DecodeErrorFirst ==
    ~input_ok =>
        /\ pc \in {"load", "failed"}
        /\ pc = "failed" => error = "decode"
        /\ original = NoImage
        /\ i = 0 /\ angles = <<>> /\ frames = <<>>
        /\ ~save_args.set
        /\ output = output0 /\ ~sink_open
        /\ ~summary.set
C4_Witness == ~input_ok /\ pc = "failed" /\ error = "decode" /\ output0 = OldFile

\* C5: when the call has ended, output_path holds the complete animation or
\* none of this call's output.
C5_AllOrNothing ==
    Terminal => (OutputComplete \/ output = output0)

\* C6: for n_frames >= 1, when the save step starts angles and frames both
\* have n_frames elements, the encoder is handed exactly n_frames frames, and
\* every frame written carries frame_duration_ms; a finished file has
\* n_frames frames.
C6_FrameCount ==
    n_frames >= 1 =>
        /\ (pc = "save" \/ EncodeStarted) =>
              /\ Len(angles) = n_frames
              /\ Len(frames) = n_frames
        /\ EncodeStarted =>
              /\ Len(EncoderFrames) = n_frames
              /\ save_args.duration = frame_duration_ms
        /\ \A j \in 1..Len(output.frames) :
              output.frames[j].duration = frame_duration_ms
        /\ pc \in {"report", "done"} => OutputComplete
C6_Witness ==
    /\ pc = "done"
    /\ n_frames = 3
    /\ Len(output.frames) = 3
    /\ frame_duration_ms = 50

\* C7: the loop directive written is 0 when loop_forever and 1 otherwise,
\* whatever n_frames and frame_duration_ms are, and the mode the summary
\* names agrees with the directive written.
C7_LoopDirective ==
    /\ EncodeStarted => save_args.loop = (IF loop_forever THEN 0 ELSE 1)
    /\ output.kind = "gif" => output.loop = (IF loop_forever THEN 0 ELSE 1)
    /\ summary.set =>
          /\ output.kind = "gif"
          /\ summary.mode = "inf loop" <=> output.loop = 0
          /\ summary.mode = "play twice" <=> output.loop = 1
C7_Witness ==
    /\ pc = "done"
    /\ ~loop_forever
    /\ output.loop = 1
    /\ summary.mode = "play twice"

\* C8: for n_frames >= 2 the finished angle list has n_frames elements, starts
\* at exactly 0, ends at exactly 360, is non-decreasing and stays in [0, 360].
C8_AngleSequence ==
    n_frames >= 2 =>
        /\ IsSorted(angles)
        /\ \A j \in 1..Len(angles) : 0 <= angles[j] /\ angles[j] <= FullTurn * Scale
        /\ Len(angles) = i
        /\ Len(angles) >= 1 => angles[1] = 0
        /\ AnglesBuilt =>
              /\ Len(angles) = n_frames
              /\ angles[n_frames] = FullTurn * Scale
C8_Witness ==
    /\ pc = "rotate"
    /\ n_frames = MaxFrames
    /\ Len(angles) = MaxFrames
    /\ angles[2] > 0 /\ angles[2] < angles[3]

\* C9: the steps run in the order load, angles, rotations, save, report: the
\* output is not opened (nor changed) before every rotation is done, a
\* rotation that fails ends the call with output_path untouched, and the
\* summary is printed only after save has finished, never on a failed call.
C9_StepOrder ==
    /\ (sink_open \/ output # output0 \/ EncodeStarted) =>
          /\ original = SourceImage
          /\ i >= n_frames
          /\ Len(frames) = Len(angles)
    /\ pc \in {"load", "angles"} => frames = <<>>
    /\ pc = "load" => angles = <<>>
    /\ error = "render" => output = output0 /\ ~sink_open /\ ~EncodeStarted
    /\ summary.set => pc = "done" /\ error = "none" /\ OutputComplete /\ ~sink_open
    /\ pc = "failed" => ~summary.set /\ error # "none"
C9_Witness ==
    /\ pc = "done"
    /\ summary.set
    /\ Len(frames) = 4

\* C10: the j-th frame handed to the encoder, and the j-th frame written, is
\* the source image as decoded rotated by the j-th angle: rotations apply to
\* the original, which is loaded once and never changed.
C10_FrameOrder ==
    /\ pc # "load" /\ input_ok => original = SourceImage
    /\ \A j \in 1..Len(frames) : frames[j] = Rotate(SourceImage, angles[j])
    /\ EncodeStarted =>
          /\ Len(EncoderFrames) = Len(angles)
          /\ \A j \in 1..Len(EncoderFrames) :
                EncoderFrames[j] = Rotate(SourceImage, angles[j])
    /\ \A j \in 1..Len(output.frames) :
          output.frames[j].img = Rotate(SourceImage, angles[j])
C10_Witness ==
    /\ pc = "done"
    /\ Len(output.frames) = 4
    /\ output.frames[3].img.rot = angles[3]
    /\ angles[3] > angles[2]
====
